---- MODULE Spec2Model ----
(***************************************************************************)
(* Model of the maze generator: the recursive-backtracking algorithm       *)
(* (RecursiveBacktrackingAlgorithm), its animated generate() driver, and   *)
(* the 3D scene's reaction to generation events.                           *)
(***************************************************************************)
EXTENDS Integers, Sequences, FiniteSets, TLC

VARIABLES
    width,        \* maze.width
    height,       \* maze.height
    grid,         \* maze.grid[y][x]: [wall, visited, current, path]
    stack,        \* this.stack
    current,      \* this.current ({x, y} or null)
    isComplete,   \* this.isComplete
    stepCount,    \* this.stepCount
    lastResult,   \* the record returned by the latest step() call
    runs,         \* the generate() invocations: position, locals, callback log
    scene3d,      \* the MazeScene3D instance (or not yet constructed)
    cameraDistance, \* MazeConfig.threeD.cameraDistance, as a fraction num/den
    emitted,      \* how the latest EventBus.emit ended for its caller
    initCalls,    \* initialize() calls made so far by the hand-driven run
    bus,          \* the EventBus instance and the emit() calls in progress
    debounced     \* the function returned by debounce(), its timer and the clock

sceneVars == <<scene3d, cameraDistance, emitted>>
vars == <<width, height, grid, stack, current, isComplete, stepCount, lastResult, runs,
          scene3d, cameraDistance, emitted, initCalls, bus, debounced>>

----------------------------------------------------------------------------
(* Bounds of the model *)

\* largest maze width and height explored
MaxSize == 7
\* number of generate() invocations that may exist on one instance
MaxRuns == 2
\* largest maze side explored when two generate() runs interleave
MaxRegenSize == 4
\* largest maze side explored together with the 3D scene
MaxSceneSize == 4
\* largest maze side explored with repeated initialize() calls
MaxTerminateSize == 5
\* initialize() calls a hand-driven run may make on the same maze
MaxInits == 2
\* on() and once() calls made on one EventBus
MaxSubs == 2
\* the clock of the debounced function stops at this many ms
MaxTime == 6
\* largest wait given to debounce(), in ms
MaxWait == 2

(* Program constants *)

stepSize == 2
animationDelayBase == 50
animationDelayMax == 500
StartX == 1
StartY == 1
cellSize3D == 4
DefaultCameraDistance == 50

Null == [isNull |-> TRUE]
NoResult == [none |-> TRUE]

RunIds == 1..MaxRuns
SpeedRange == 1..10

----------------------------------------------------------------------------
(* Grid model *)

Xs == 0..(width - 1)
Ys == 0..(height - 1)

\* a freshly created maze: every cell a wall, nothing visited or marked
FreshCell == [wall |-> TRUE, visited |-> FALSE, current |-> FALSE, path |-> FALSE]

FreshGrid(w, h) == [y \in 0..(h - 1) |-> [x \in 0..(w - 1) |-> FreshCell]]

getCell(g, x, y) == g[y][x]

\* setCell merges the given fields into the cell
setCell(g, x, y, props) == [g EXCEPT ![y][x] = props @@ g[y][x]]

\* mutant: the upper bounds are inclusive
isValidCoordinate_Inclusive(x, y, w, h) == x >= 0 /\ x <= w /\ y >= 0 /\ y <= h

isValidCoordinate(x, y, w, h) == x >= 0 /\ x < w /\ y >= 0 /\ y < h

----------------------------------------------------------------------------
(* RecursiveBacktrackingAlgorithm *)

Pos(x, y) == [x |-> x, y |-> y]

\* mutant: the South direction is missing
directions_NoSouth(x, y, step) ==
    << Pos(x, y - step), Pos(x + step, y), Pos(x - step, y) >>

\* the four cardinal directions, in the order North, East, South, West
directions(x, y, step) ==
    << Pos(x, y - step), Pos(x + step, y), Pos(x, y + step), Pos(x - step, y) >>

\* the directions that pass the bounds check, before any cell is read
validDirections(x, y) ==
    LET inBounds(d) == isValidCoordinate(d.x, d.y, width, height)
    IN  SelectSeq(directions(x, y, stepSize), inBounds)

IsUnvisitedInBounds(g, d) ==
    /\ isValidCoordinate(d.x, d.y, width, height)
    /\ ~getCell(g, d.x, d.y).visited

\* mutant: neighbours taken at distance 1 instead of config.stepSize
getUnvisitedNeighbors_StepOne(g, x, y) ==
    LET dirs == directions(x, y, 1)
        keep(d) == IsUnvisitedInBounds(g, d)
    IN  SelectSeq(dirs, keep)

getUnvisitedNeighbors(g, x, y) ==
    LET dirs == directions(x, y, stepSize)
        keep(d) == IsUnvisitedInBounds(g, d)
    IN  SelectSeq(dirs, keep)

\* mutant: the difference is not halved, so the far cell is cleared
WallBetween_NotHalved(cur, next) ==
    Pos(cur.x + (next.x - cur.x), cur.y + (next.y - cur.y))

\* the cell between cur and next: cur + (next - cur) / 2
WallBetween(cur, next) ==
    Pos(cur.x + (next.x - cur.x) \div 2, cur.y + (next.y - cur.y) \div 2)

\* initialize(): the grid after marking the start cell
InitializedGrid(g) ==
    setCell(g, StartX, StartY,
            [wall |-> FALSE, visited |-> TRUE, current |-> TRUE, path |-> FALSE])

\* the algorithm instance's fields, as one value
Algo(g, stk, cur, done, count) ==
    [grid |-> g, stack |-> stk, current |-> cur, isComplete |-> done, stepCount |-> count]

\* initialize(): start at (1,1), empty stack, flags and counter cleared
initialize(a) ==
    Algo(InitializedGrid(a.grid), << >>, Pos(StartX, StartY), FALSE, 0)

\* reset(): fields cleared, this.current = null; the maze is not touched
reset(a) == Algo(a.grid, << >>, Null, FALSE, 0)

\* mutant: the cell between the two keeps its wall flag
CarveGrid_MidpointKeepsWall(g, cur, next) ==
    LET w  == WallBetween(cur, next)
        g1 == setCell(g, w.x, w.y,
                 [visited |-> TRUE, current |-> FALSE, path |-> TRUE])
        g2 == setCell(g1, cur.x, cur.y,
                 [wall |-> FALSE, visited |-> TRUE, current |-> FALSE, path |-> TRUE])
    IN  setCell(g2, next.x, next.y,
                 [wall |-> FALSE, visited |-> TRUE, current |-> TRUE, path |-> FALSE])

\* step(), first branch: carve towards the chosen neighbour
CarveGrid(g, cur, next) ==
    LET w  == WallBetween(cur, next)
        g1 == setCell(g, w.x, w.y,
                 [wall |-> FALSE, visited |-> TRUE, current |-> FALSE, path |-> TRUE])
        g2 == setCell(g1, next.x, next.y,
                 [wall |-> FALSE, visited |-> TRUE, current |-> FALSE, path |-> FALSE])
        g3 == setCell(g2, cur.x, cur.y,
                 [wall |-> FALSE, visited |-> TRUE, current |-> FALSE, path |-> TRUE])
    IN  setCell(g3, next.x, next.y,
                 [wall |-> FALSE, visited |-> TRUE, current |-> TRUE, path |-> FALSE])

\* mutant: the chosen neighbour is pushed instead of the old current cell
CarveBranch_PushesNext(a, next) ==
    Algo(CarveGrid(a.grid, a.current, next), Append(a.stack, next), next,
         a.isComplete, a.stepCount)

\* mutant: the old current cell is not pushed
CarveBranch_ForgetsPush(a, next) ==
    Algo(CarveGrid(a.grid, a.current, next), a.stack, next, a.isComplete, a.stepCount)

CarveBranch(a, next) ==
    Algo(CarveGrid(a.grid, a.current, next), Append(a.stack, a.current), next,
         a.isComplete, a.stepCount)

\* mutant: the cell left behind keeps its current marker
BacktrackGrid_KeepsMarker(g, cur, top) ==
    setCell(g, top.x, top.y,
            [wall |-> FALSE, visited |-> TRUE, current |-> TRUE, path |-> TRUE])

\* step(), second branch: backtrack to the popped cell
BacktrackGrid(g, cur, top) ==
    LET g1 == setCell(g, cur.x, cur.y,
                 [wall |-> FALSE, visited |-> TRUE, current |-> FALSE, path |-> TRUE])
    IN  setCell(g1, top.x, top.y,
                 [wall |-> FALSE, visited |-> TRUE, current |-> TRUE, path |-> TRUE])

\* mutant: the top of the stack is read but not popped
BacktrackBranch_PeeksOnly(a) ==
    LET top == a.stack[Len(a.stack)]
    IN  Algo(BacktrackGrid(a.grid, a.current, top), a.stack, top, a.isComplete, a.stepCount)

BacktrackBranch(a) ==
    LET top == a.stack[Len(a.stack)]
    IN  Algo(BacktrackGrid(a.grid, a.current, top),
             SubSeq(a.stack, 1, Len(a.stack) - 1), top, a.isComplete, a.stepCount)

\* step(), third branch: the terminal cell becomes path, the run is complete
CompleteGrid(g, cur) ==
    setCell(g, cur.x, cur.y,
            [wall |-> FALSE, visited |-> TRUE, current |-> FALSE, path |-> TRUE])

\* mutant: the completion flag is not set
CompleteBranch_FlagNotSet(a) ==
    Algo(CompleteGrid(a.grid, a.current), a.stack, a.current, a.isComplete, a.stepCount)

CompleteBranch(a) ==
    Algo(CompleteGrid(a.grid, a.current), a.stack, a.current, TRUE, a.stepCount)

\* the record step() returns after a branch ran
StepRecord(a) ==
    [complete |-> a.isComplete, current |-> a.current, step |-> a.stepCount,
     stackSize |-> Len(a.stack)]

\* the record step() returns when the run is already complete
CompleteRecord(a) == [complete |-> TRUE, current |-> a.current]

\* mutant: the completing call returns without counting itself
CountAndReturn_SkipsCompletingCall(a) ==
    LET b == IF a.isComplete THEN a ELSE [a EXCEPT !.stepCount = @ + 1]
    IN  [algo |-> b, result |-> StepRecord(b)]

\* the tail of step(): this.stepCount++, then the step record
CountAndReturn(a) ==
    LET b == [a EXCEPT !.stepCount = @ + 1]
    IN  [algo |-> b, result |-> StepRecord(b)]

\* step() dereferences this.current before changing anything
StepThrows(a) == ~a.isComplete /\ a.current = Null

\* mutant: no early return once the run is complete
step_NoEarlyReturn(a) ==
    LET neighbors == getUnvisitedNeighbors(a.grid, a.current.x, a.current.y)
    IN  IF Len(neighbors) > 0
        THEN {CountAndReturn(CarveBranch(a, neighbors[i])) : i \in 1..Len(neighbors)}
        ELSE IF Len(a.stack) > 0
        THEN {CountAndReturn(BacktrackBranch(a))}
        ELSE {CountAndReturn(CompleteBranch(a))}

\* mutant: a dead end completes the run even when the stack is not empty
step_NoBacktrack(a) ==
    IF a.isComplete
    THEN {[algo |-> a, result |-> CompleteRecord(a)]}
    ELSE LET neighbors == getUnvisitedNeighbors(a.grid, a.current.x, a.current.y)
         IN  IF Len(neighbors) > 0
             THEN {CountAndReturn(CarveBranch(a, neighbors[i])) : i \in 1..Len(neighbors)}
             ELSE {CountAndReturn(CompleteBranch(a))}

\* step(): the outcomes [algo, result] of one call, one per random choice
step(a) ==
    IF a.isComplete
    THEN {[algo |-> a, result |-> CompleteRecord(a)]}
    ELSE LET neighbors == getUnvisitedNeighbors(a.grid, a.current.x, a.current.y)
         IN  IF Len(neighbors) > 0
             THEN {CountAndReturn(CarveBranch(a, neighbors[i])) : i \in 1..Len(neighbors)}
             ELSE IF Len(a.stack) > 0
             THEN {CountAndReturn(BacktrackBranch(a))}
             ELSE {CountAndReturn(CompleteBranch(a))}

----------------------------------------------------------------------------
(* The instance and its maze as state *)

This == Algo(grid, stack, current, isComplete, stepCount)

Becomes(a) ==
    /\ grid' = a.grid
    /\ stack' = a.stack
    /\ current' = a.current
    /\ isComplete' = a.isComplete
    /\ stepCount' = a.stepCount

\* the event names the model subscribes to and emits
EventNames == {"maze:generation:progress", "maze:generation:complete"}

\* an event without an entry in this.events
NoListeners == [present |-> FALSE, listeners |-> << >>]

\* new EventBus(): this.events = {}; nothing subscribed, nothing emitted
NewBus ==
    [events        |-> [e \in EventNames |-> NoListeners],
     nextId        |-> 1,        \* the id the next subscription gets
     registrations |-> << >>,    \* per id: the event and callback given to on()
     onceCalls     |-> << >>,    \* per id: calls of the callback given to once()
     busy          |-> FALSE,    \* the re-emitting listener is running
     thrown        |-> FALSE,    \* an exception is propagating
     trace         |-> << >>]    \* the emit() calls made by the last operation

\* let timeout; (no timer pending)
NoTimeout == [set |-> FALSE, due |-> 0, args |-> ""]

\* before debounce(func, wait) is called, at time 0
NotDebounced ==
    [created   |-> FALSE,
     wait      |-> 0,
     now       |-> 0,                 \* the clock, in ms
     timeout   |-> NoTimeout,         \* the pending setTimeout(later, wait)
     lastCall  |-> [made |-> FALSE, at |-> 0, args |-> ""],
     bursts    |-> 0,                 \* runs of calls less than wait apart
     preempted |-> 0,                 \* bursts whose timer was cleared by the next burst
     invoked   |-> << >>]             \* the func(...args) calls made

\* no MazeScene3D has been constructed
NoScene == [constructed |-> FALSE]

IdleRun == [pc |-> "idle", processedCells |-> 0, totalCells |-> 0,
            speed |-> 0, delay |-> 0, log |-> << >>]

InitFor(maxSize) ==
    /\ width \in (StartX + 1)..maxSize
    /\ height \in (StartY + 1)..maxSize
    /\ grid = FreshGrid(width, height)
    /\ stack = << >>
    /\ current = Null
    /\ isComplete = FALSE
    /\ stepCount = 0
    /\ lastResult = NoResult
    /\ runs = [r \in RunIds |-> IdleRun]
    /\ scene3d = NoScene
    /\ cameraDistance = [num |-> DefaultCameraDistance, den |-> 1]
    /\ emitted = "nothing"
    /\ initCalls = 0
    /\ bus = NewBus
    /\ debounced = NotDebounced

----------------------------------------------------------------------------
(* A single run driven by hand: initialize(), then step() calls *)

Init == InitFor(MaxSize)

Initialize ==
    /\ current = Null
    /\ Becomes(initialize(This))
    /\ initCalls' = initCalls + 1
    /\ UNCHANGED <<width, height, lastResult, runs, sceneVars, bus, debounced>>

Step ==
    /\ current # Null
    /\ \E out \in step(This) :
          /\ Becomes(out.algo)
          /\ lastResult' = out.result
    /\ UNCHANGED <<width, height, runs, sceneVars, initCalls, bus, debounced>>

Next == Initialize \/ Step

Spec == Init /\ [][Next]_vars

(* a hand-driven run that may call initialize() again on the same maze;   *)
(* the driver keeps calling step()                                         *)
InitializeAgain ==
    /\ current # Null
    /\ initCalls < MaxInits
    /\ Becomes(initialize(This))
    /\ initCalls' = initCalls + 1
    /\ UNCHANGED <<width, height, lastResult, runs, sceneVars, bus, debounced>>

TerminateNext == Initialize \/ Step \/ InitializeAgain

SpecTerminate == InitFor(MaxTerminateSize) /\ [][TerminateNext]_vars /\ WF_vars(Step)

----------------------------------------------------------------------------
(* generate(): the animated driver.  A call runs synchronously up to its   *)
(* first await of MazeUtils.delay; each timer expiry resumes it for one    *)
(* more turn of the while loop.                                            *)

\* Math.floor((width * height) / 4)
TotalCells(w, h) == (w * h) \div 4

\* (processedCells / totalCells) * 100, kept exact as a fraction num/den
Percentage(processed, total) == [num |-> processed * 100, den |-> total]

\* mutant: the speed is used without subtracting 1
AnimationDelay_SpeedNotShifted(animationSpeed) ==
    animationDelayMax -
        (animationSpeed * (animationDelayMax - animationDelayBase)) \div 9

\* animationDelayMax - (animationSpeed - 1) * (animationDelayMax - animationDelayBase) / 9
AnimationDelay(animationSpeed) ==
    animationDelayMax -
        ((animationSpeed - 1) * (animationDelayMax - animationDelayBase)) \div 9

\* what the progress callback receives
ProgressCall(processed, total, a, result) ==
    [percentage |-> Percentage(processed, total), stepCount |-> a.stepCount,
     result |-> result]

\* one turn of the while loop of run r, entered with the instance in state a
LoopTurn(r, run, a) ==
    IF a.isComplete
    THEN \* loop exits, generate() returns its statistics
         /\ Becomes(a)
         /\ runs' = [runs EXCEPT ![r] = [run EXCEPT !.pc = "done"]]
         /\ UNCHANGED lastResult
    ELSE IF StepThrows(a)
    THEN \* step() raises a TypeError: the promise of generate() is rejected
         /\ Becomes(a)
         /\ runs' = [runs EXCEPT ![r] = [run EXCEPT !.pc = "error"]]
         /\ UNCHANGED lastResult
    ELSE \E out \in step(a) :
            LET processed == run.processedCells + 1
            IN  /\ Becomes(out.algo)
                /\ lastResult' = out.result
                /\ runs' = [runs EXCEPT ![r] =
                      [run EXCEPT
                          !.pc = "delay",
                          !.processedCells = processed,
                          !.delay = AnimationDelay(run.speed),
                          !.log = Append(@, ProgressCall(processed, run.totalCells,
                                                         out.algo, out.result))]]

\* generate(progressCallback, animationSpeed) is called: initialize(), then
\* the first turn of the loop, up to the first await
GenerateCall(r, animationSpeed) ==
    /\ runs[r].pc = "idle"
    /\ LoopTurn(r, [runs[r] EXCEPT !.totalCells = TotalCells(width, height),
                                   !.processedCells = 0,
                                   !.speed = animationSpeed],
                initialize(This))
    /\ UNCHANGED <<width, height, sceneVars, initCalls, bus, debounced>>

\* the delay of run r expires and its continuation runs
Resume(r) ==
    /\ runs[r].pc = "delay"
    /\ LoopTurn(r, runs[r], This)
    /\ UNCHANGED <<width, height, sceneVars, initCalls, bus, debounced>>

\* reset() is called on the instance
Reset ==
    /\ Becomes(reset(This))
    /\ UNCHANGED <<width, height, lastResult, runs, sceneVars, initCalls, bus, debounced>>

(* one generate() run *)
GenerateNext ==
    \/ \E s \in SpeedRange : GenerateCall(1, s)
    \/ Resume(1)

SpecGenerate == Init /\ [][GenerateNext]_vars

(* one generate() run, with reset() called while it is suspended *)
ResetWhileSuspended ==
    /\ runs[1].pc = "delay"
    /\ Reset

ResetNext ==
    \/ \E s \in SpeedRange : GenerateCall(1, s)
    \/ Resume(1)
    \/ ResetWhileSuspended

SpecReset == Init /\ [][ResetNext]_vars

(* generate() called again while the earlier run is suspended *)
GenerateAgain(r, animationSpeed) ==
    /\ r > 1
    /\ runs[r - 1].pc = "delay"
    /\ GenerateCall(r, animationSpeed)

RegenerateNext ==
    \/ \E s \in SpeedRange : GenerateCall(1, s)
    \/ \E r \in RunIds : \E s \in SpeedRange : GenerateAgain(r, s)
    \/ \E r \in RunIds : Resume(r)

SpecRegenerate == InitFor(MaxRegenSize) /\ [][RegenerateNext]_vars

----------------------------------------------------------------------------
(* MazeScene3D: construction, event listeners, maze loading *)

Object3D(kind, x, y) == [kind |-> kind, x |-> x, y |-> y]

IsPathIndicator(m) == m.kind \in {"indicator-current", "indicator-path"}
IsLight(m) == m.kind \in {"ambient-light", "directional-light"}
NotPathIndicator(m) == ~IsPathIndicator(m)

\* a THREE.Scene with the objects added to it, in order
SceneGraph(children) == [children |-> children]

\* the statements of initialize() that can raise, in program order; the
\* constructor's try block is left at the first one that does
FailurePoints ==
    << "THREE.Scene", "THREE.WebGLRenderer", "container", "setupCamera",
       "AmbientLight", "DirectionalLight", "FogExp2", "startRenderLoop" >>

FailIndex(failAt) ==
    IF \E i \in 1..Len(FailurePoints) : FailurePoints[i] = failAt
    THEN CHOOSE i \in 1..Len(FailurePoints) : FailurePoints[i] = failAt
    ELSE Len(FailurePoints) + 1

\* config.playerHeight, 1.8
playerHeight == [num |-> 18, den |-> 10]

\* the camera after setCameraView(viewMode): where it stands is fixed by the
\* view mode, the maze centre and config.cameraDistance
CameraPose(viewMode, hasMaze, w, h, dist) ==
    [view |-> viewMode,
     centerX |-> IF hasMaze THEN (w * cellSize3D) \div 2 ELSE 0,
     centerZ |-> IF hasMaze THEN (h * cellSize3D) \div 2 ELSE 0,
     distance |-> IF viewMode = "first-person" THEN playerHeight ELSE dist]

ViewModes == {"overhead", "perspective", "first-person"}

\* setCameraView(viewMode)
setCameraView(sc, viewMode, w, h, dist) ==
    IF sc.camera = Null \/ viewMode \notin ViewModes
    THEN sc
    ELSE [sc EXCEPT !.camera = CameraPose(viewMode, sc.maze, w, h, dist)]

\* the constructor: fields, initialize() with its try/catch, setupEventListeners()
construct(failAt, dist) ==
    LET k == FailIndex(failAt)
    IN  [constructed |-> TRUE,
         scene |-> IF k > 1
                   THEN SceneGraph(
                        (IF k > 5 THEN <<Object3D("ambient-light", -1, -1)>> ELSE << >>)
                        \o (IF k > 6 THEN <<Object3D("directional-light", -1, -1)>> ELSE << >>))
                   ELSE Null,
         renderer |-> k > 2,
         camera |-> IF k > 4 THEN CameraPose("overhead", FALSE, 0, 0, dist) ELSE Null,
         maze |-> FALSE,
         meshes |-> << >>,
         isInitialized |-> k > Len(FailurePoints),
         listening |-> TRUE]

\* the path indicators updatePathVisualization creates, in row-major order
RECURSIVE IndicatorsFrom(_, _, _, _)
IndicatorsFrom(g, w, h, k) ==
    IF k >= w * h
    THEN << >>
    ELSE LET x == k % w
             y == k \div w
             cell == g[y][x]
             here == IF cell.current THEN <<Object3D("indicator-current", x, y)>>
                     ELSE IF cell.path THEN <<Object3D("indicator-path", x, y)>>
                     ELSE << >>
         IN  here \o IndicatorsFrom(g, w, h, k + 1)

\* MazeGeometry3D.createWalls: one mesh per wall cell, in row-major order
RECURSIVE WallsFrom(_, _, _, _)
WallsFrom(g, w, h, k) ==
    IF k >= w * h
    THEN << >>
    ELSE LET x == k % w
             y == k \div w
         IN  (IF g[y][x].wall THEN <<Object3D("wall", x, y)>> ELSE << >>)
             \o WallsFrom(g, w, h, k + 1)

\* what a handler leaves behind: the scene, the configured camera distance,
\* and whether it raised
Outcome(sc, dist, threw) == [scene3d |-> sc, cameraDistance |-> dist, threw |-> threw]

\* updatePathVisualization()
updatePathVisualization(sc, g, w, h, dist) ==
    IF ~sc.maze
    THEN Outcome(sc, dist, FALSE)
    ELSE LET kept == SelectSeq(sc.meshes, NotPathIndicator)
             had  == Len(kept) < Len(sc.meshes)
             inds == IndicatorsFrom(g, w, h, 0)
         IN  IF sc.scene = Null
             THEN \* scene.remove / scene.add on null raises a TypeError
                  IF had THEN Outcome(sc, dist, TRUE)
                  ELSE IF inds # << >>
                       THEN Outcome([sc EXCEPT !.meshes = kept], dist, TRUE)
                       ELSE Outcome([sc EXCEPT !.meshes = kept], dist, FALSE)
             ELSE Outcome([sc EXCEPT
                              !.meshes = kept \o inds,
                              !.scene = SceneGraph(SelectSeq(sc.scene.children, NotPathIndicator)
                                                  \o inds)],
                          dist, FALSE)

\* fitCameraToMaze(): writes config.cameraDistance, then the overhead view
fitCameraToMaze(sc, w, h, dist) ==
    IF ~sc.maze \/ sc.camera = Null
    THEN Outcome(sc, dist, FALSE)
    ELSE LET maxDimension == IF w >= h THEN w ELSE h
             distance == [num |-> maxDimension * cellSize3D * 8, den |-> 10]
         IN  Outcome(setCameraView(sc, "overhead", w, h, distance), distance, FALSE)

\* clearMeshes(): every mesh leaves the scene graph, the list is emptied
clearMeshes(sc, dist) ==
    IF sc.meshes = << >>
    THEN Outcome(sc, dist, FALSE)
    ELSE IF sc.scene = Null
    THEN Outcome(sc, dist, TRUE)
    ELSE LET inMeshes(m) == \E i \in 1..Len(sc.meshes) : sc.meshes[i] = m
             stays(m) == ~inMeshes(m)
         IN  Outcome([sc EXCEPT !.meshes = << >>,
                                  !.scene = SceneGraph(SelectSeq(sc.scene.children, stays))],
                     dist, FALSE)

\* loadMaze(mazeData)
loadMaze(sc, g, w, h, dist) ==
    LET cleared == clearMeshes([sc EXCEPT !.maze = TRUE], dist)
        c == cleared.scene3d
    IN  IF cleared.threw \/ ~c.isInitialized
        THEN cleared
        ELSE LET built == <<Object3D("floor", -1, -1)>> \o WallsFrom(g, w, h, 0)
                 withMeshes == [c EXCEPT !.meshes = built,
                                         !.scene = SceneGraph(@.children \o built)]
                 shown == updatePathVisualization(withMeshes, g, w, h, dist)
             IN  IF shown.threw THEN shown
                 ELSE fitCameraToMaze(shown.scene3d, w, h, dist)

\* the listener of MAZE_GENERATION_PROGRESS
onGenerationProgress(sc, g, w, h, dist) ==
    IF sc.maze THEN updatePathVisualization(sc, g, w, h, dist)
    ELSE Outcome(sc, dist, FALSE)

\* the listener of MAZE_GENERATION_COMPLETE
onGenerationComplete(sc, g, w, h, dist) == loadMaze(sc, g, w, h, dist)

\* the listener of CAMERA_CHANGED
onCameraChanged(sc, cameraType, w, h, dist) ==
    Outcome(setCameraView(sc, cameraType, w, h, dist), dist, FALSE)

\* EventBus.emit: a listener's exception is caught and logged, never rethrown
emit(out) ==
    /\ scene3d' = out.scene3d
    /\ cameraDistance' = out.cameraDistance
    /\ emitted' = IF out.threw THEN "listener error logged" ELSE "listeners returned"

ConstructScene(failAt) ==
    /\ ~scene3d.constructed
    /\ scene3d' = construct(failAt, cameraDistance)
    /\ UNCHANGED <<width, height, grid, stack, current, isComplete, stepCount,
                   lastResult, runs, cameraDistance, emitted, initCalls, bus, debounced>>

EmitGenerationProgress ==
    /\ scene3d.constructed
    /\ emit(onGenerationProgress(scene3d, grid, width, height, cameraDistance))
    /\ UNCHANGED <<width, height, grid, stack, current, isComplete, stepCount,
                   lastResult, runs, initCalls, bus, debounced>>

EmitGenerationComplete ==
    /\ scene3d.constructed
    /\ emit(onGenerationComplete(scene3d, grid, width, height, cameraDistance))
    /\ UNCHANGED <<width, height, grid, stack, current, isComplete, stepCount,
                   lastResult, runs, initCalls, bus, debounced>>

EmitCameraChanged(cameraType) ==
    /\ scene3d.constructed
    /\ emit(onCameraChanged(scene3d, cameraType, width, height, cameraDistance))
    /\ UNCHANGED <<width, height, grid, stack, current, isComplete, stepCount,
                   lastResult, runs, initCalls, bus, debounced>>

InitSuccess == "none"

SceneNext ==
    \/ Initialize
    \/ Step
    \/ \E i \in 1..Len(FailurePoints) : ConstructScene(FailurePoints[i])
    \/ ConstructScene(InitSuccess)
    \/ EmitGenerationProgress
    \/ EmitGenerationComplete
    \/ \E v \in ViewModes : EmitCameraChanged(v)

SpecScene == InitFor(MaxSceneSize) /\ [][SceneNext]_vars

----------------------------------------------------------------------------
(* The passage subgraph of a grid *)

Cells == Xs \X Ys

Passage(g) == {c \in Cells : ~g[c[2]][c[1]].wall}

Adjacent(a, b) ==
    \/ (a[1] = b[1] /\ (a[2] = b[2] + 1 \/ b[2] = a[2] + 1))
    \/ (a[2] = b[2] /\ (a[1] = b[1] + 1 \/ b[1] = a[1] + 1))

\* the adjacent pairs of passage cells, each named by its left or upper cell
PassageEdges(g) ==
    LET P == Passage(g)
    IN  {<<c, "east">> : c \in {c \in P : <<c[1] + 1, c[2]>> \in P}}
        \cup {<<c, "south">> : c \in {c \in P : <<c[1], c[2] + 1>> \in P}}

RECURSIVE ReachFrom(_, _)
ReachFrom(seen, all) ==
    LET more == {c \in all \ seen : \E s \in seen : Adjacent(c, s)}
    IN  IF more = {} THEN seen ELSE ReachFrom(seen \cup more, all)

CurrentCells(g) == {c \in Cells : g[c[2]][c[1]].current}

----------------------------------------------------------------------------
(* Claims about a single hand-driven run (specification Spec) *)

\* C1: when a run on a fresh all-wall grid is complete, the passage subgraph
\* is a tree: every non-wall cell is reachable from the start cell (1,1) and
\* the number of adjacent non-wall pairs is the number of non-wall cells - 1.
C1_PerfectMaze ==
    isComplete =>
        /\ <<StartX, StartY>> \in Passage(grid)
        /\ ReachFrom({<<StartX, StartY>>}, Passage(grid)) = Passage(grid)
        /\ Cardinality(PassageEdges(grid)) = Cardinality(Passage(grid)) - 1

\* a complete maze in which carving actually happened (several passage cells)
C1_Witness ==
    /\ isComplete
    /\ width = 7 /\ height = 7
    /\ Cardinality(Passage(grid)) = 17

\* C2: after initialize() and after every step(), exactly one cell carries the
\* current flag while the run is not complete, and it is the cell held in
\* this.current; once the run is complete no cell carries the flag.
C2_OneCurrent ==
    current # Null =>
        IF isComplete
        THEN CurrentCells(grid) = {}
        ELSE CurrentCells(grid) = {<<current.x, current.y>>}

\* a run that has carved and backtracked and is still active
C2_Witness ==
    /\ current # Null /\ ~isComplete
    /\ stepCount >= 3
    /\ Len(stack) < stepCount
    /\ CurrentCells(grid) = {<<current.x, current.y>>}

\* C3: once isComplete is true, every further step() reports complete = TRUE
\* with the current cell of the completing call and leaves the grid, the
\* stack, current, isComplete and stepCount unchanged.
C3_StepAfterCompleteIsInert ==
    [][isComplete =>
          /\ lastResult'.complete = TRUE
          /\ lastResult'.current = lastResult.current
          /\ UNCHANGED <<grid, stack, current, isComplete, stepCount>>]_vars

\* a step() call was made after completion
C3_Witness ==
    /\ isComplete
    /\ stepCount > 1
    /\ lastResult = CompleteRecord(This)

\* C5 as stated: on a 5x5 grid the run is complete after exactly one step.
C5_FiveByFiveOneStep ==
    (width = 5 /\ height = 5 /\ stepCount >= 1) =>
        (isComplete /\ stepCount = 1 /\ grid[StartY][StartX].path)

\* C5 amended: on a 3x3 grid the first step() finds no unvisited neighbour,
\* marks the start cell as path and completes the run, so the run takes
\* exactly 1 step; on a 5x5 grid the run completes after exactly 7 steps.
C5_ThreeByThreeOneStep ==
    /\ (width = 3 /\ height = 3 /\ stepCount >= 1) =>
          /\ isComplete /\ stepCount = 1
          /\ grid[StartY][StartX].path
          /\ ~grid[StartY][StartX].current
          /\ lastResult.complete
    /\ (width = 5 /\ height = 5 /\ current # Null) =>
          (isComplete <=> stepCount = 7)

C5_Witness ==
    /\ width = 3 /\ height = 3
    /\ isComplete /\ stepCount = 1
    /\ lastResult = StepRecord(Algo(grid, << >>, Pos(StartX, StartY), TRUE, 1))

----------------------------------------------------------------------------
(* Claims about one generate() run (specification SpecGenerate) *)

LogStepCounts(r) == [i \in 1..Len(runs[r].log) |-> runs[r].log[i].stepCount]

CountUp(n) == [i \in 1..n |-> i]

\* C4: within one generate() run every step() advances stepCount by exactly
\* one and the progress callback fires once per step, in step order, with the
\* stepCount values 1, 2, 3, ... without gaps or repeats.
C4_ProgressInStepOrder ==
    runs[1].pc # "idle" =>
        /\ Len(runs[1].log) = runs[1].processedCells
        /\ stepCount = runs[1].processedCells
        /\ LogStepCounts(1) = CountUp(stepCount)
        /\ \A i \in 1..Len(runs[1].log) : runs[1].log[i].result.step = i

\* a finished run that carved, backtracked and completed
C4_Witness ==
    /\ runs[1].pc = "done"
    /\ Len(runs[1].log) = 7
    /\ runs[1].log[7].result.complete
    /\ ~runs[1].log[6].result.complete

\* C8 as stated: every percentage handed to the progress callback lies in
\* 0..100, that is, processedCells never exceeds floor(width*height/4).
C8_PercentageWithinRange ==
    \A i \in 1..Len(runs[1].log) :
        LET p == runs[1].log[i].percentage
        IN  /\ p.num >= 0
            /\ p.num <= 100 * p.den

\* C9: for every integer speed s in 1..10 the delay awaited by generate() is
\* animationDelayMax at s = 1, animationDelayBase at s = 10, strictly
\* decreasing in s and always between the two constants; the division by 9
\* is exact.
C9_DelayLinearInSpeed ==
    runs[1].pc = "delay" =>
        LET s == runs[1].speed
            d == runs[1].delay
        IN  /\ s \in SpeedRange
            /\ d >= animationDelayBase /\ d <= animationDelayMax
            /\ (s = 1 => d = animationDelayMax)
            /\ (s = 10 => d = animationDelayBase)
            /\ 9 * (animationDelayMax - d) =
                  (s - 1) * (animationDelayMax - animationDelayBase)
            /\ \A t \in SpeedRange : (t < s => AnimationDelay(t) > d)

\* a run suspended at the fastest speed
C9_Witness ==
    /\ runs[1].pc = "delay"
    /\ runs[1].speed = 10
    /\ runs[1].delay = animationDelayBase
    /\ stepCount >= 2

----------------------------------------------------------------------------
(* Claim about reset() during a suspended run (specification SpecReset) *)

\* C6 as stated: after reset() was called while the run is suspended in its
\* delay, the run changes no grid cell, fires no further progress callback,
\* and resuming its continuation raises no error.
C6_ResetStopsRunQuietly ==
    [][(runs[1].pc = "delay" /\ current = Null) =>
          /\ grid' = grid
          /\ runs'[1].log = runs[1].log
          /\ runs'[1].pc # "error"]_vars

----------------------------------------------------------------------------
(* Claim about overlapping generate() runs (specification SpecRegenerate) *)

\* C7 as stated: once generate() has been called again, the continuation of
\* the earlier run never changes the grid, stack, current cell or stepCount
\* the new run uses, so the new run's progress stepCounts are 1, 2, 3, ...
\* without gaps.
C7_OrphanIsHarmless ==
    /\ [](runs[2].pc # "idle" => LogStepCounts(2) = CountUp(Len(runs[2].log)))
    /\ [][(runs[2].pc # "idle" /\ runs'[1] # runs[1]) =>
            UNCHANGED <<grid, stack, current, stepCount>>]_vars

----------------------------------------------------------------------------
(* Claim about a scene that failed to initialize (specification SpecScene) *)

\* C10 as stated: when the scene failed to initialize, then after any
\* sequence of generation-progress, generation-complete and camera-changed
\* events its mesh list is empty, the scene graph holds nothing but what the
\* failed initialization left there, and no exception reached the emitter.
C10_FailedSceneStaysInert ==
    (scene3d.constructed /\ ~scene3d.isInitialized) =>
        /\ scene3d.meshes = << >>
        /\ (scene3d.scene # Null =>
               \A i \in 1..Len(scene3d.scene.children) :
                   IsLight(scene3d.scene.children[i]))
        /\ emitted # "exception escaped"

----------------------------------------------------------------------------
(* Claim about the configuration (specification SpecScene) *)

\* C11 as stated: no operation changes a value of MazeConfig, nested
\* sections included: threeD.cameraDistance keeps the value it was loaded with.
C11_ConfigNeverChanges ==
    cameraDistance = [num |-> DefaultCameraDistance, den |-> 1]

----------------------------------------------------------------------------
(* Claims about the branches of step() (specification Spec) *)

InGrid(p) == p.x \in Xs /\ p.y \in Ys

\* the in-bounds unvisited cells two columns or two rows away from p
UnvisitedAtDistanceTwo(g, p) ==
    {c \in Cells :
        /\ \/ (c[1] = p.x /\ (c[2] = p.y + 2 \/ c[2] = p.y - 2))
           \/ (c[2] = p.y /\ (c[1] = p.x + 2 \/ c[1] = p.x - 2))
        /\ ~g[c[2]][c[1]].visited}

CellOf(p) == <<p.x, p.y>>

Active == current # Null /\ ~isComplete

\* C14: when the current cell has an in-bounds unvisited neighbour at
\* distance 2, step() moves to one of exactly those neighbours, clears the
\* single cell midway between the two, marks the neighbour visited, non-wall
\* and current, pushes the old current (the stack grows by exactly 1) and
\* changes no cell other than the old current, the midway cell and the
\* neighbour.
C14_CarveStep ==
    [][(Active /\ UnvisitedAtDistanceTwo(grid, current) # {}) =>
          /\ CellOf(current') \in UnvisitedAtDistanceTwo(grid, current)
          /\ stack' = Append(stack, current)
          /\ LET mid == <<(current.x + current'.x) \div 2, (current.y + current'.y) \div 2>>
                 new == grid'[current'.y][current'.x]
             IN  /\ 2 * mid[1] = current.x + current'.x
                 /\ 2 * mid[2] = current.y + current'.y
                 /\ grid[mid[2]][mid[1]].wall
                 /\ ~grid'[mid[2]][mid[1]].wall
                 /\ new.visited /\ ~new.wall /\ new.current
                 /\ ~grid'[current.y][current.x].current
                 /\ \A c \in Cells \ {CellOf(current), mid, CellOf(current')} :
                        grid'[c[2]][c[1]] = grid[c[2]][c[1]]]_vars

\* a run whose steps so far were all carving steps
C14_Witness ==
    /\ Active
    /\ stepCount = 3
    /\ Len(stack) = 3
    /\ lastResult.stackSize = 3

\* C15: when the current cell has no unvisited neighbour and the stack is
\* not empty, step() pops the top of the stack as the new current (the stack
\* shrinks by exactly 1) and changes no wall flag and no visited flag; only
\* the old and the new current cell change at all.
C15_BacktrackStep ==
    [][(Active /\ UnvisitedAtDistanceTwo(grid, current) = {} /\ Len(stack) > 0) =>
          /\ current' = stack[Len(stack)]
          /\ stack' = SubSeq(stack, 1, Len(stack) - 1)
          /\ ~isComplete'
          /\ \A c \in Cells :
                /\ grid'[c[2]][c[1]].wall = grid[c[2]][c[1]].wall
                /\ grid'[c[2]][c[1]].visited = grid[c[2]][c[1]].visited
          /\ \A c \in Cells \ {CellOf(current), CellOf(current')} :
                grid'[c[2]][c[1]] = grid[c[2]][c[1]]
          /\ ~grid'[current.y][current.x].current
          /\ grid'[current'.y][current'.x].current]_vars

\* a run that has just backtracked: the current cell is already path
C15_Witness ==
    /\ Active
    /\ grid[current.y][current.x].path
    /\ Len(stack) + 1 < stepCount
    /\ lastResult.stackSize = Len(stack)

\* C16: step() sets isComplete only in a state where the current cell has no
\* unvisited neighbour and the stack is empty; that cell is the start cell
\* (1,1), and it is left marked path and not current.
C16_CompletesOnlyAtStart ==
    [][(~isComplete /\ isComplete') =>
          /\ UnvisitedAtDistanceTwo(grid, current) = {}
          /\ stack = << >>
          /\ current = Pos(StartX, StartY)
          /\ current' = current
          /\ grid'[StartY][StartX].path
          /\ ~grid'[StartY][StartX].current]_vars

\* a run that completed after carving and backtracking
C16_Witness ==
    /\ isComplete
    /\ stepCount = 17
    /\ current = Pos(StartX, StartY)
    /\ grid[StartY][StartX].path

InBoundsOdd(p) == InGrid(p) /\ p.x % 2 = 1 /\ p.y % 2 = 1

SeqToSet(q) == {q[i] : i \in 1..Len(q)}

\* C17: every cell initialize() and step() read or write lies inside the
\* grid: the candidates that pass the bounds check are in the grid and the
\* out-of-bounds directions are dropped, the current cell and every stack
\* entry have odd in-bounds coordinates, and the cell midway to any candidate
\* has integer in-bounds coordinates.
C17_AccessesStayInGrid ==
    current # Null =>
        /\ InBoundsOdd(current)
        /\ \A i \in 1..Len(stack) : InBoundsOdd(stack[i])
        /\ LET all == SeqToSet(directions(current.x, current.y, stepSize))
               kept == SeqToSet(validDirections(current.x, current.y))
           IN  /\ kept = {d \in all : InGrid(d)}
               /\ \A d \in kept :
                     LET w == WallBetween(current, d)
                     IN  /\ InGrid(w)
                         /\ 2 * w.x = current.x + d.x
                         /\ 2 * w.y = current.y + d.y

\* a run standing in a corner, where two directions leave the grid
C17_Witness ==
    /\ Active
    /\ width = 7 /\ height = 7
    /\ current = Pos(5, 5)
    /\ Len(validDirections(current.x, current.y)) = 2

\* C18 as stated: every step() call returns a record with the four fields
\* complete, current, step count and stack size, calls after completion
\* included.
C18_StepRecordHasFourFields ==
    lastResult # NoResult =>
        DOMAIN lastResult = {"complete", "current", "step", "stackSize"}

\* the number of in-bounds cells with both coordinates odd
OddCellCount(w, h) == (w \div 2) * (h \div 2)

OddCells == {c \in Cells : c[1] % 2 = 1 /\ c[2] % 2 = 1}

\* C20: when a single run on a fresh grid with odd width and height is
\* complete, every in-bounds cell with both coordinates odd is visited and
\* non-wall.
C20_AllOddCellsCarved ==
    (isComplete /\ width % 2 = 1 /\ height % 2 = 1) =>
        \A c \in OddCells : grid[c[2]][c[1]].visited /\ ~grid[c[2]][c[1]].wall

C20_Witness ==
    /\ isComplete
    /\ width = 7 /\ height = 5
    /\ Cardinality(OddCells) = 6
    /\ grid[3][5].visited

----------------------------------------------------------------------------
(* Claim about termination (specification SpecTerminate) *)

\* C19: a run of initialize() followed by repeated step() calls eventually
\* reaches isComplete = TRUE, also when initialize() is called again on a
\* maze that is already partly carved; on a fresh grid the run is complete
\* after exactly 2N - 1 steps, N being the number of in-bounds cells with
\* both coordinates odd.
C19_RunTerminates ==
    /\ [](current # Null => <>isComplete)
    /\ [](initCalls = 1 =>
            /\ stepCount <= 2 * OddCellCount(width, height) - 1
            /\ (isComplete <=> stepCount = 2 * OddCellCount(width, height) - 1))

C19_Witness ==
    /\ initCalls = 1
    /\ isComplete
    /\ width = 5 /\ height = 5
    /\ stepCount = 7

----------------------------------------------------------------------------
(* The EventBus: on, once, off, removeAllListeners, emit.                  *)
(* emit() is synchronous, so one emit() call with everything its listeners *)
(* do, nested emits included, is one step.                                 *)

\* a listener subscribed without context
NoContext == "null"
Contexts == {NoContext, "ui"}

\* removeAllListeners() called without an event name
NoEvent == ""

EventData == {"first", "second"}

(* The functions handed to on(). A function is identified by what it is:   *)
(* the same function subscribed twice is one callback in two listeners.    *)
Callback(kind, name, reg) == [kind |-> kind, name |-> name, reg |-> reg]
\* a listener that only takes the data
Plain(name) == Callback("plain", name, 0)
\* a listener that throws
Thrower == Callback("throws", "thrower", 0)
\* a listener that emits the event it received again, once per outer call
Reemitter == Callback("reemits", "reemitter", 0)
\* a listener that subscribes another listener to the event it received
Subscriber == Callback("subscribes", "subscriber", 0)
\* a listener that unsubscribes the plain listener from the event it received
Unsubscriber == Callback("unsubscribes", "unsubscriber", 0)
\* the arrow function once() creates around its callback; each call of
\* once() creates a new one
OnceWrapper(callback, reg) == Callback("onceWrapper", callback.name, reg)

Callbacks == {Plain("plain"), Thrower, Reemitter, Subscriber, Unsubscriber}

generateId(b) == b.nextId

on(b, event, callback, context) ==
    LET list == IF b.events[event].present THEN b.events[event].listeners ELSE << >>
        listener == [callback |-> callback, context |-> context, id |-> generateId(b)]
    IN  [b EXCEPT !.events[event] = [present |-> TRUE, listeners |-> Append(list, listener)],
                  !.nextId = @ + 1,
                  !.registrations = Append(@, [event |-> event, callback |-> callback]),
                  !.onceCalls = Append(@, 0)]

once(b, event, callback, context) ==
    on(b, event, OnceWrapper(callback, generateId(b)), context)

\* mutant: an emptied listener list is kept in the table
off_KeepsEmptyList(b, event, callback) ==
    IF ~b.events[event].present
    THEN b
    ELSE LET differs(listener) == listener.callback # callback
         IN  [b EXCEPT !.events[event].listeners = SelectSeq(@, differs)]

off(b, event, callback) ==
    IF ~b.events[event].present
    THEN b
    ELSE LET differs(listener) == listener.callback # callback
             kept == SelectSeq(b.events[event].listeners, differs)
         IN  IF Len(kept) = 0
             THEN [b EXCEPT !.events[event] = NoListeners]
             ELSE [b EXCEPT !.events[event].listeners = kept]

removeAllListeners(b, event) ==
    IF event # NoEvent
    THEN [b EXCEPT !.events[event] = NoListeners]
    ELSE [b EXCEPT !.events = [e \in EventNames |-> NoListeners]]

listenerCount(b, event) ==
    IF b.events[event].present THEN Len(b.events[event].listeners) ELSE 0

\* Object.keys(this.events)
eventNames(b) == {e \in EventNames : b.events[e].present}

\* the record of one emit() call: what was subscribed when it was called,
\* and what it invoked, in order
Emission(b, event, data) ==
    [event |-> event, data |-> data, atCall |-> b.events[event].listeners,
     invoked |-> << >>, errors |-> 0]

\* mutant: forEach walks the live listener list
iterated_LiveList(b, event, listeners) == b.events[event].listeners

\* the array that forEach walks: the copy made when emit() was called
iterated(b, event, listeners) == listeners

RECURSIVE emitEvent(_, _, _)
RECURSIVE forEach(_, _, _, _, _, _)

\* one listener is called with the data, by emission number k of the trace
invoke(b, listener, event, data, k) ==
    LET called == [b EXCEPT !.trace[k].invoked =
                                Append(@, [listener |-> listener, data |-> data])]
        kind == listener.callback.kind
    IN  CASE kind = "plain" -> called
          [] kind = "throws" -> [called EXCEPT !.thrown = TRUE]
          [] kind = "reemits" ->
                IF called.busy
                THEN called
                ELSE LET returned == emitEvent([called EXCEPT !.busy = TRUE], event, data)
                     IN  IF returned.thrown
                         THEN returned
                         ELSE [returned EXCEPT !.busy = FALSE]
          [] kind = "subscribes" -> on(called, event, Plain("late"), NoContext)
          [] kind = "unsubscribes" -> off(called, event, Plain("plain"))
          [] kind = "onceWrapper" ->
                [off(called, event, listener.callback)
                    EXCEPT !.onceCalls[listener.callback.reg] = @ + 1]

\* mutant: the listener call is not wrapped in try/catch
tryCatch_NoCatch(b, k) == b

\* try { ... } catch (error) { console.error(...) } around one listener call
tryCatch(b, k) ==
    IF b.thrown
    THEN [b EXCEPT !.thrown = FALSE, !.trace[k].errors = @ + 1]
    ELSE b

\* forEach ends when the array is exhausted or an exception leaves it
forEach(b, event, data, listeners, i, k) ==
    LET array == iterated(b, event, listeners)
    IN  IF b.thrown \/ i > Len(array)
        THEN b
        ELSE forEach(tryCatch(invoke(b, array[i], event, data, k), k),
                     event, data, listeners, i + 1, k)

\* emit(event, data)
emitEvent(b, event, data) ==
    LET started == [b EXCEPT !.trace = Append(@, Emission(b, event, data))]
    IN  IF ~b.events[event].present
        THEN started
        ELSE forEach(started, event, data, b.events[event].listeners, 1, Len(started.trace))

notBus == <<width, height, grid, stack, current, isComplete, stepCount,
            lastResult, runs, sceneVars, initCalls, debounced>>

\* the operation that is called starts with an empty trace
Called == [bus EXCEPT !.trace = << >>]

On(event, callback, context) ==
    /\ bus.nextId <= MaxSubs
    /\ bus' = on(Called, event, callback, context)
    /\ UNCHANGED notBus

Once(event, callback, context) ==
    /\ bus.nextId <= MaxSubs
    /\ bus' = once(Called, event, callback, context)
    /\ UNCHANGED notBus

Off(event, callback) ==
    /\ bus' = off(Called, event, callback)
    /\ UNCHANGED notBus

\* the function returned by the on() or once() call that made subscription id
Unsubscribe(id) ==
    /\ id < bus.nextId
    /\ bus' = off(Called, bus.registrations[id].event, bus.registrations[id].callback)
    /\ UNCHANGED notBus

RemoveAllListeners(event) ==
    /\ bus' = removeAllListeners(Called, event)
    /\ UNCHANGED notBus

Emit(event, data) ==
    LET returned == emitEvent(Called, event, data)
    IN  /\ returned.nextId <= MaxSubs + 1
        /\ bus' = returned
        /\ UNCHANGED notBus

BusNext ==
    \/ \E e \in EventNames, cb \in Callbacks, ctx \in Contexts : On(e, cb, ctx)
    \/ \E e \in EventNames, ctx \in Contexts : Once(e, Plain("plain"), ctx)
    \/ \E e \in EventNames, cb \in Callbacks : Off(e, cb)
    \/ \E id \in 1..MaxSubs : Unsubscribe(id)
    \/ \E e \in EventNames \cup {NoEvent} : RemoveAllListeners(e)
    \/ \E e \in EventNames, d \in EventData : Emit(e, d)

SpecBus == InitFor(StartX + 1) /\ [][BusNext]_vars

----------------------------------------------------------------------------
(* Claims about the EventBus (specification SpecBus) *)

\* C12 as stated: a callback registered with once() is invoked at most one
\* time in total, emits issued from inside another listener of the same
\* event during an emission included.
C12_OnceCallbackAtMostOnce ==
    \A id \in 1..Len(bus.onceCalls) : bus.onceCalls[id] <= 1

\* C13: every emit() call invokes exactly the listeners subscribed to its
\* event when it was called, each once, in subscription order, with the
\* emitted data, whatever the listeners subscribe or unsubscribe meanwhile;
\* no listener subscribed to another event is invoked.
C13_EmitInvokesSubscribedAtCall ==
    \A k \in 1..Len(bus.trace) :
        LET em == bus.trace[k]
        IN  /\ Len(em.invoked) = Len(em.atCall)
            /\ \A i \in 1..Len(em.invoked) :
                  /\ em.invoked[i].listener = em.atCall[i]
                  /\ em.invoked[i].data = em.data
                  /\ bus.registrations[em.invoked[i].listener.id].event = em.event
            /\ \A i, j \in 1..Len(em.invoked) :
                  i < j => em.invoked[i].listener.id < em.invoked[j].listener.id

\* an emission during which a listener unsubscribed a later listener before
\* its turn: the later listener was still invoked and is no longer subscribed
C13_Witness ==
    \E k \in 1..Len(bus.trace) :
        LET em == bus.trace[k]
            now == bus.events[em.event].listeners
        IN  /\ Len(em.invoked) >= 2
            /\ \E i \in 2..Len(em.invoked) :
                  /\ em.invoked[i].listener.callback = Plain("plain")
                  /\ \A n \in 1..Len(now) : now[n] # em.invoked[i].listener
            /\ \E j \in 1..Len(em.invoked) :
                  em.invoked[j].listener.callback = Unsubscriber

----------------------------------------------------------------------------
(* Claims about the shape of a run (specification Spec) *)

\* the backtrack stack followed by the current cell
StackThenCurrent == Append(stack, current)

\* C21: in every state of a single run the backtrack stack followed by the
\* current cell is a simple path from the start cell (1,1): no cell occurs
\* twice, the current cell is not on the stack, consecutive cells are at
\* distance 2 with the cell between them cleared, every stack entry is
\* visited, and the stack holds at most N - 1 cells, N being the number of
\* cells with both coordinates odd.
C21_StackIsSimplePath ==
    current # Null =>
        LET p == StackThenCurrent
        IN  /\ p[1] = Pos(StartX, StartY)
            /\ \A i, j \in 1..Len(p) : i # j => p[i] # p[j]
            /\ \A i \in 1..Len(stack) : stack[i] # current
            /\ \A i \in 1..(Len(p) - 1) :
                  /\ \/ (p[i].x = p[i + 1].x /\ (p[i].y = p[i + 1].y + 2 \/ p[i + 1].y = p[i].y + 2))
                     \/ (p[i].y = p[i + 1].y /\ (p[i].x = p[i + 1].x + 2 \/ p[i + 1].x = p[i].x + 2))
                  /\ ~grid[(p[i].y + p[i + 1].y) \div 2][(p[i].x + p[i + 1].x) \div 2].wall
            /\ \A i \in 1..Len(stack) : grid[stack[i].y][stack[i].x].visited
            /\ Len(stack) <= OddCellCount(width, height) - 1

\* a run whose stack holds all odd cells but the current one
C21_Witness ==
    /\ Active
    /\ width = 7 /\ height = 7
    /\ Len(stack) = OddCellCount(width, height) - 1
    /\ Len(stack) = 8

\* C22: carving is monotonic across every step of a run: a visited cell
\* stays visited, a cell that is not a wall stays so, and every visited cell
\* is not a wall.
C22_CarvingIsMonotonic ==
    /\ [](\A c \in Cells : grid[c[2]][c[1]].visited => ~grid[c[2]][c[1]].wall)
    /\ [][\A c \in Cells :
             /\ grid[c[2]][c[1]].visited => grid'[c[2]][c[1]].visited
             /\ ~grid[c[2]][c[1]].wall => ~grid'[c[2]][c[1]].wall]_vars

\* a run that has carved, backtracked and completed on the largest maze
C22_Witness ==
    /\ isComplete
    /\ width = 7 /\ height = 6
    /\ Cardinality(Passage(grid)) = 17
    /\ \A c \in OddCells : grid[c[2]][c[1]].visited

----------------------------------------------------------------------------
(* Claims about failures and the event table (specification SpecBus) *)

\* the positions of an emission at which a throwing listener was called
ThrowerCalls(em) ==
    {i \in 1..Len(em.invoked) : em.invoked[i].listener.callback = Thrower}

\* the last operation on b was an emit that called a throwing listener and
\* otherwise only listeners that leave the bus alone
OnlyFailures(b) ==
    /\ Len(b.trace) = 1
    /\ ThrowerCalls(b.trace[1]) # {}
    /\ \A i \in 1..Len(b.trace[1].invoked) :
          b.trace[1].invoked[i].listener.callback.kind \in {"plain", "throws"}

\* C23: a listener that throws during emit does not stop the emission: the
\* listeners subscribed after it are still invoked for that emit, the
\* exception does not reach the caller of emit (it is logged instead), and
\* the subscriptions are the same after the emit as before.
C23_ThrowingListenerIsContained ==
    /\ [](/\ ~bus.thrown
          /\ \A k \in 1..Len(bus.trace) :
                LET em == bus.trace[k]
                IN  /\ em.errors = Cardinality(ThrowerCalls(em))
                    /\ \A i \in ThrowerCalls(em) :
                          /\ Len(em.invoked) = Len(em.atCall)
                          /\ \A j \in (i + 1)..Len(em.atCall) :
                                em.invoked[j].listener = em.atCall[j])
    /\ [][OnlyFailures(bus') => bus'.events = bus.events]_vars

\* an emit whose first listener threw and whose second listener was called
C23_Witness ==
    /\ OnlyFailures(bus)
    /\ bus.trace[1].invoked[1].listener.callback = Thrower
    /\ Len(bus.trace[1].invoked) = 2
    /\ bus.trace[1].invoked[2].listener.callback = Plain("plain")
    /\ bus.trace[1].errors = 1

\* subscription id is in the listener list of its event
Listed(b, id) ==
    \E i \in 1..Len(b.events[b.registrations[id].event].listeners) :
        b.events[b.registrations[id].event].listeners[i].id = id

\* C24 as stated: calling the function returned by on(event, cb) while its
\* subscription is in place removes exactly that subscription:
\* listenerCount(event) decreases by exactly 1, and every other subscription,
\* of the same callback with another context or of another event, stays.
C24_UnsubscribeRemovesOne ==
    [][\A id \in 1..MaxSubs :
          (/\ id < bus.nextId
           /\ bus.registrations[id].callback.kind # "onceWrapper"
           /\ Listed(bus, id)
           /\ Unsubscribe(id)) =>
              LET event == bus.registrations[id].event
                  others(listener) == listener.id # id
              IN  /\ listenerCount(bus', event) = listenerCount(bus, event) - 1
                  /\ bus'.events[event].listeners =
                        SelectSeq(bus.events[event].listeners, others)
                  /\ \A e \in EventNames \ {event} : bus'.events[e] = bus.events[e]]_vars

\* C25: after any sequence of on, once, off, removeAllListeners and emit the
\* event table holds no event with an empty listener list: eventNames() is
\* exactly the set of events with at least one listener, and
\* listenerCount(event) is the number of subscriptions in place for the event
\* (0 for an event that is not in the table).
C25_NoEmptyListenerList ==
    /\ \A e \in EventNames :
          /\ bus.events[e].present => Len(bus.events[e].listeners) > 0
          /\ ~bus.events[e].present => listenerCount(bus, e) = 0
          /\ listenerCount(bus, e) =
                Cardinality({id \in 1..(bus.nextId - 1) :
                                bus.registrations[id].event = e /\ Listed(bus, id)})
    /\ eventNames(bus) = {e \in EventNames : listenerCount(bus, e) > 0}

\* two different callbacks were subscribed to one event and both are gone,
\* while the other event was never used
C25_Witness ==
    /\ bus.nextId = 3
    /\ bus.registrations[1].event = bus.registrations[2].event
    /\ bus.registrations[1].callback # bus.registrations[2].callback
    /\ eventNames(bus) = {}
    /\ listenerCount(bus, bus.registrations[1].event) = 0

----------------------------------------------------------------------------
(* MazeUtils.debounce(func, wait): the returned function, its timer, and   *)
(* the clock. A timer callback runs at or after its due time, whenever the *)
(* event loop gets to it; calls can be made at any time.                   *)

DebounceArgs == {"first", "second"}

debounce(d, wait) == [d EXCEPT !.created = TRUE, !.wait = wait]

\* a call starts a new burst when it is the first one or comes wait ms or
\* more after the previous call
StartsBurst(d) == ~d.lastCall.made \/ d.now - d.lastCall.at >= d.wait

\* the bookkeeping of one call: the bursts, and the bursts cut off
Counted(d) ==
    [d EXCEPT !.bursts = IF StartsBurst(d) THEN @ + 1 ELSE @,
              !.preempted = IF StartsBurst(d) /\ d.timeout.set THEN @ + 1 ELSE @]

\* mutant: a pending timer is neither cleared nor replaced
executedFunction_KeepsTimer(d, args) ==
    [Counted(d) EXCEPT
        !.timeout = IF d.timeout.set
                    THEN d.timeout
                    ELSE [set |-> TRUE, due |-> d.now + d.wait, args |-> args],
        !.lastCall = [made |-> TRUE, at |-> d.now, args |-> args]]

\* executedFunction(...args): clearTimeout(timeout); timeout = setTimeout(later, wait)
executedFunction(d, args) ==
    [Counted(d) EXCEPT
        !.timeout = [set |-> TRUE, due |-> d.now + d.wait, args |-> args],
        !.lastCall = [made |-> TRUE, at |-> d.now, args |-> args]]

\* later(): clearTimeout(timeout); func(...args)
later(d) ==
    [d EXCEPT !.timeout = NoTimeout,
              !.invoked = Append(@, [at |-> d.now, args |-> d.timeout.args,
                                     lastCallAt |-> d.lastCall.at,
                                     lastCallArgs |-> d.lastCall.args])]

notDebounced == <<width, height, grid, stack, current, isComplete, stepCount,
                  lastResult, runs, sceneVars, initCalls, bus>>

Debounce(wait) ==
    /\ ~debounced.created
    /\ debounced' = debounce(debounced, wait)
    /\ UNCHANGED notDebounced

\* only calls whose timer comes due on the bounded clock are explored
CallDebounced(args) ==
    /\ debounced.created
    /\ debounced.now + debounced.wait <= MaxTime
    /\ debounced' = executedFunction(debounced, args)
    /\ UNCHANGED notDebounced

\* the timer callback runs: its delay has passed and it was not cleared
Later ==
    /\ debounced.timeout.set
    /\ debounced.now >= debounced.timeout.due
    /\ debounced' = later(debounced)
    /\ UNCHANGED notDebounced

\* one ms passes
Tick ==
    /\ debounced.now < MaxTime
    /\ debounced' = [debounced EXCEPT !.now = @ + 1]
    /\ UNCHANGED notDebounced

DebounceNext ==
    \/ \E wait \in 1..MaxWait : Debounce(wait)
    \/ \E args \in DebounceArgs : CallDebounced(args)
    \/ Later
    \/ Tick

\* time passes, and the event loop runs a timer callback that stays due
SpecDebounce ==
    InitFor(StartX + 1) /\ [][DebounceNext]_vars /\ WF_vars(Tick) /\ WF_vars(Later)

----------------------------------------------------------------------------
(* Claim about debounce (specification SpecDebounce) *)

\* C26 as stated: every burst of calls less than wait apart produces exactly
\* one invocation of func: once no timer is pending, func has been invoked
\* once per burst.
C26_EveryBurstInvokesOnce ==
    ~debounced.timeout.set => Len(debounced.invoked) = debounced.bursts

\* C26, amended: func is invoked only wait ms or more after the most recent
\* call, with no call in between and with that call's arguments; a pending
\* timer callback eventually runs or is cleared; and every burst produces
\* exactly one invocation, except a burst whose timer callback had not run
\* yet when the next burst began, which produces none.
C26_DebounceInvokesAfterQuiet ==
    /\ [](/\ \A i \in 1..Len(debounced.invoked) :
                /\ debounced.invoked[i].at - debounced.invoked[i].lastCallAt >= debounced.wait
                /\ debounced.invoked[i].args = debounced.invoked[i].lastCallArgs
          /\ Len(debounced.invoked) + debounced.preempted
                + (IF debounced.timeout.set THEN 1 ELSE 0) = debounced.bursts)
    /\ [](debounced.timeout.set => <>(~debounced.timeout.set))

\* a burst of two calls with different arguments less than wait apart,
\* followed by its one invocation
C26_Witness ==
    /\ debounced.wait = 2
    /\ debounced.bursts = 1
    /\ Len(debounced.invoked) = 1
    /\ debounced.invoked[1].args = "second"
    /\ debounced.invoked[1].lastCallAt = 1
    /\ ~debounced.timeout.set

====
